---- MODULE Spec2Model ----
(***************************************************************************)
(* RegionKind<I> of rustc_type_ir (region_kind.rs): the enum, its          *)
(* hand-written PartialEq / Debug / HashStable implementations and the     *)
(* PartialOrd / Ord / Hash implementations derived for it.                 *)
(*                                                                         *)
(* A RegionKind value is a record [tag, d, r]: tag is the variant, d the   *)
(* DebruijnIndex of ReBound (0 elsewhere), r the payload supplied by the   *)
(* interner (0 for ReStatic and ReErased, which carry none).  The payload  *)
(* types of the interner are small integer ranges with the integers' own   *)
(* equality and order.                                                     *)
(***************************************************************************)
EXTENDS Integers, Sequences, FiniteSets, TLC

VARIABLES a, b, c, done, eqOut, cmpOut, hsOut, hashOut, fmtOut

vars == <<a, b, c, done, eqOut, cmpOut, hsOut, hashOut, fmtOut>>

\* Number of distinct values of each interner payload type.
MaxPayload == 3
\* Number of distinct De Bruijn indices.
MaxDebruijn == 2

----------------------------------------------------------------------------
(* The interner's associated types and the enum.                           *)

DebruijnIndex == 0 .. (MaxDebruijn - 1)
EarlyParamRegion == 0 .. (MaxPayload - 1)
BoundRegion == 0 .. (MaxPayload - 1)
LateParamRegion == 0 .. (MaxPayload - 1)
InferRegion == 0 .. (MaxPayload - 1)
PlaceholderRegion == 0 .. (MaxPayload - 1)
ErrorGuaranteed == 0 .. (MaxPayload - 1)

ReEarlyParam(r) == [tag |-> "ReEarlyParam", d |-> 0, r |-> r]
ReBound(d, r) == [tag |-> "ReBound", d |-> d, r |-> r]
ReLateParam(r) == [tag |-> "ReLateParam", d |-> 0, r |-> r]
ReStatic == [tag |-> "ReStatic", d |-> 0, r |-> 0]
ReVar(r) == [tag |-> "ReVar", d |-> 0, r |-> r]
RePlaceholder(r) == [tag |-> "RePlaceholder", d |-> 0, r |-> r]
ReErased == [tag |-> "ReErased", d |-> 0, r |-> 0]
ReError(r) == [tag |-> "ReError", d |-> 0, r |-> r]

RegionKind ==
    {ReEarlyParam(r) : r \in EarlyParamRegion}
      \cup {ReBound(d, r) : d \in DebruijnIndex, r \in BoundRegion}
      \cup {ReLateParam(r) : r \in LateParamRegion}
      \cup {ReStatic}
      \cup {ReVar(r) : r \in InferRegion}
      \cup {RePlaceholder(r) : r \in PlaceholderRegion}
      \cup {ReErased}
      \cup {ReError(r) : r \in ErrorGuaranteed}

----------------------------------------------------------------------------
(* regionkind_discriminant and std::mem::discriminant.                     *)

regionkind_discriminant_collide(value) ==
    CASE value.tag = "ReEarlyParam" -> 0
      [] value.tag = "ReBound" -> 1
      [] value.tag = "ReLateParam" -> 2
      [] value.tag = "ReStatic" -> 3
      [] value.tag = "ReVar" -> 4
      [] value.tag = "RePlaceholder" -> 5
      [] value.tag = "ReErased" -> 3
      [] value.tag = "ReError" -> 7

regionkind_discriminant(value) ==
    CASE value.tag = "ReEarlyParam" -> 0
      [] value.tag = "ReBound" -> 1
      [] value.tag = "ReLateParam" -> 2
      [] value.tag = "ReStatic" -> 3
      [] value.tag = "ReVar" -> 4
      [] value.tag = "RePlaceholder" -> 5
      [] value.tag = "ReErased" -> 6
      [] value.tag = "ReError" -> 7

\* std::mem::discriminant: the variant's position in the declaration.
discriminant(value) ==
    CASE value.tag = "ReEarlyParam" -> 0
      [] value.tag = "ReBound" -> 1
      [] value.tag = "ReLateParam" -> 2
      [] value.tag = "ReStatic" -> 3
      [] value.tag = "ReVar" -> 4
      [] value.tag = "RePlaceholder" -> 5
      [] value.tag = "ReErased" -> 6
      [] value.tag = "ReError" -> 7

----------------------------------------------------------------------------
(* PartialEq::eq.  The result records the value returned and the match     *)
(* arm that produced it; arm "none" is the short-circuit of && (the match  *)
(* is not evaluated), arm "wildcard" is the `_` arm, whose debug_assert!   *)
(* traps in a build with debug assertions and which returns true in one    *)
(* without.                                                                *)

eq_error_payload(self, other) ==
    IF regionkind_discriminant(self) # regionkind_discriminant(other)
    THEN [result |-> FALSE, arm |-> "none"]
    ELSE CASE self.tag = "ReEarlyParam" /\ other.tag = "ReEarlyParam" ->
                [result |-> self.r = other.r, arm |-> "ReEarlyParam"]
           [] self.tag = "ReBound" /\ other.tag = "ReBound" ->
                [result |-> self.d = other.d /\ self.r = other.r, arm |-> "ReBound"]
           [] self.tag = "ReLateParam" /\ other.tag = "ReLateParam" ->
                [result |-> self.r = other.r, arm |-> "ReLateParam"]
           [] self.tag = "ReStatic" /\ other.tag = "ReStatic" ->
                [result |-> TRUE, arm |-> "ReStatic"]
           [] self.tag = "ReVar" /\ other.tag = "ReVar" ->
                [result |-> self.r = other.r, arm |-> "ReVar"]
           [] self.tag = "RePlaceholder" /\ other.tag = "RePlaceholder" ->
                [result |-> self.r = other.r, arm |-> "RePlaceholder"]
           [] self.tag = "ReErased" /\ other.tag = "ReErased" ->
                [result |-> TRUE, arm |-> "ReErased"]
           [] self.tag = "ReError" /\ other.tag = "ReError" ->
                [result |-> self.r = other.r, arm |-> "ReError"]
           [] OTHER -> [result |-> TRUE, arm |-> "wildcard"]

eq_bound_ignores_depth(self, other) ==
    IF regionkind_discriminant(self) # regionkind_discriminant(other)
    THEN [result |-> FALSE, arm |-> "none"]
    ELSE CASE self.tag = "ReEarlyParam" /\ other.tag = "ReEarlyParam" ->
                [result |-> self.r = other.r, arm |-> "ReEarlyParam"]
           [] self.tag = "ReBound" /\ other.tag = "ReBound" ->
                [result |-> self.r = other.r, arm |-> "ReBound"]
           [] self.tag = "ReLateParam" /\ other.tag = "ReLateParam" ->
                [result |-> self.r = other.r, arm |-> "ReLateParam"]
           [] self.tag = "ReStatic" /\ other.tag = "ReStatic" ->
                [result |-> TRUE, arm |-> "ReStatic"]
           [] self.tag = "ReVar" /\ other.tag = "ReVar" ->
                [result |-> self.r = other.r, arm |-> "ReVar"]
           [] self.tag = "RePlaceholder" /\ other.tag = "RePlaceholder" ->
                [result |-> self.r = other.r, arm |-> "RePlaceholder"]
           [] self.tag = "ReErased" /\ other.tag = "ReErased" ->
                [result |-> TRUE, arm |-> "ReErased"]
           [] self.tag = "ReError" /\ other.tag = "ReError" ->
                [result |-> TRUE, arm |-> "ReError"]
           [] OTHER -> [result |-> TRUE, arm |-> "wildcard"]

\* A comparison that is not symmetric in its operands: ReVar compares by <=.
eq_var_le(self, other) ==
    IF regionkind_discriminant(self) # regionkind_discriminant(other)
    THEN [result |-> FALSE, arm |-> "none"]
    ELSE CASE self.tag = "ReEarlyParam" /\ other.tag = "ReEarlyParam" ->
                [result |-> self.r = other.r, arm |-> "ReEarlyParam"]
           [] self.tag = "ReBound" /\ other.tag = "ReBound" ->
                [result |-> self.d = other.d /\ self.r = other.r, arm |-> "ReBound"]
           [] self.tag = "ReLateParam" /\ other.tag = "ReLateParam" ->
                [result |-> self.r = other.r, arm |-> "ReLateParam"]
           [] self.tag = "ReStatic" /\ other.tag = "ReStatic" ->
                [result |-> TRUE, arm |-> "ReStatic"]
           [] self.tag = "ReVar" /\ other.tag = "ReVar" ->
                [result |-> self.r <= other.r, arm |-> "ReVar"]
           [] self.tag = "RePlaceholder" /\ other.tag = "RePlaceholder" ->
                [result |-> self.r = other.r, arm |-> "RePlaceholder"]
           [] self.tag = "ReErased" /\ other.tag = "ReErased" ->
                [result |-> TRUE, arm |-> "ReErased"]
           [] self.tag = "ReError" /\ other.tag = "ReError" ->
                [result |-> TRUE, arm |-> "ReError"]
           [] OTHER -> [result |-> TRUE, arm |-> "wildcard"]

eq(self, other) ==
    IF regionkind_discriminant(self) # regionkind_discriminant(other)
    THEN [result |-> FALSE, arm |-> "none"]
    ELSE CASE self.tag = "ReEarlyParam" /\ other.tag = "ReEarlyParam" ->
                [result |-> self.r = other.r, arm |-> "ReEarlyParam"]
           [] self.tag = "ReBound" /\ other.tag = "ReBound" ->
                [result |-> self.d = other.d /\ self.r = other.r, arm |-> "ReBound"]
           [] self.tag = "ReLateParam" /\ other.tag = "ReLateParam" ->
                [result |-> self.r = other.r, arm |-> "ReLateParam"]
           [] self.tag = "ReStatic" /\ other.tag = "ReStatic" ->
                [result |-> TRUE, arm |-> "ReStatic"]
           [] self.tag = "ReVar" /\ other.tag = "ReVar" ->
                [result |-> self.r = other.r, arm |-> "ReVar"]
           [] self.tag = "RePlaceholder" /\ other.tag = "RePlaceholder" ->
                [result |-> self.r = other.r, arm |-> "RePlaceholder"]
           [] self.tag = "ReErased" /\ other.tag = "ReErased" ->
                [result |-> TRUE, arm |-> "ReErased"]
           [] self.tag = "ReError" /\ other.tag = "ReError" ->
                [result |-> TRUE, arm |-> "ReError"]
           [] OTHER -> [result |-> TRUE, arm |-> "wildcard"]

----------------------------------------------------------------------------
(* The derived Ord::cmp (derivative, "feature_allow_slow_enum"): variants  *)
(* of different discriminants order by discriminant; two values of one     *)
(* variant order by their fields, in declaration order.  `fields` records  *)
(* whether a field comparison took place.                                  *)

Ordering(x, y) == IF x < y THEN "Less" ELSE IF x = y THEN "Equal" ELSE "Greater"

cmp_fields_first(self, other) ==
    IF self.r # other.r
    THEN [ord |-> Ordering(self.r, other.r), fields |-> TRUE]
    ELSE [ord |-> Ordering(discriminant(self), discriminant(other)), fields |-> TRUE]

cmp(self, other) ==
    IF discriminant(self) # discriminant(other)
    THEN [ord |-> Ordering(discriminant(self), discriminant(other)), fields |-> FALSE]
    ELSE CASE self.tag = "ReBound" ->
                [ord |-> IF self.d # other.d
                         THEN Ordering(self.d, other.d)
                         ELSE Ordering(self.r, other.r),
                 fields |-> TRUE]
           [] self.tag \in {"ReStatic", "ReErased"} ->
                [ord |-> "Equal", fields |-> FALSE]
           [] OTHER ->
                [ord |-> Ordering(self.r, other.r), fields |-> TRUE]

----------------------------------------------------------------------------
(* What is fed to a hasher: a sequence of [ty, v] items.                   *)

Feed(ty, v) == [ty |-> ty, v |-> v]

\* The derived std Hash::hash: the discriminant, then every field.
hash(self) ==
    <<Feed("discriminant", discriminant(self))>> \o
    (CASE self.tag = "ReEarlyParam" -> <<Feed("EarlyParamRegion", self.r)>>
       [] self.tag = "ReBound" ->
            <<Feed("DebruijnIndex", self.d), Feed("BoundRegion", self.r)>>
       [] self.tag = "ReLateParam" -> <<Feed("LateParamRegion", self.r)>>
       [] self.tag = "ReStatic" -> <<>>
       [] self.tag = "ReVar" -> <<Feed("InferRegion", self.r)>>
       [] self.tag = "RePlaceholder" -> <<Feed("PlaceholderRegion", self.r)>>
       [] self.tag = "ReErased" -> <<>>
       [] self.tag = "ReError" -> <<Feed("ErrorGuaranteed", self.r)>>)

hash_stable_var_hashed(self) ==
    CASE self.tag \in {"ReErased", "ReStatic", "ReError"} ->
            [status |-> "returned",
             fed |-> <<Feed("discriminant", discriminant(self))>>]
      [] self.tag = "ReBound" ->
            [status |-> "returned",
             fed |-> <<Feed("discriminant", discriminant(self)),
                       Feed("DebruijnIndex", self.d), Feed("BoundRegion", self.r)>>]
      [] OTHER ->
            [status |-> "returned",
             fed |-> <<Feed("discriminant", discriminant(self)),
                       Feed("payload", self.r)>>]

hash_stable_error_hashed(self) ==
    CASE self.tag \in {"ReErased", "ReStatic"} ->
            [status |-> "returned",
             fed |-> <<Feed("discriminant", discriminant(self))>>]
      [] self.tag = "ReError" ->
            [status |-> "returned",
             fed |-> <<Feed("discriminant", discriminant(self)),
                       Feed("ErrorGuaranteed", self.r)>>]
      [] self.tag = "ReBound" ->
            [status |-> "returned",
             fed |-> <<Feed("discriminant", discriminant(self)),
                       Feed("DebruijnIndex", self.d), Feed("BoundRegion", self.r)>>]
      [] self.tag = "ReEarlyParam" ->
            [status |-> "returned",
             fed |-> <<Feed("discriminant", discriminant(self)),
                       Feed("EarlyParamRegion", self.r)>>]
      [] self.tag = "ReLateParam" ->
            [status |-> "returned",
             fed |-> <<Feed("discriminant", discriminant(self)),
                       Feed("LateParamRegion", self.r)>>]
      [] self.tag = "RePlaceholder" ->
            [status |-> "returned",
             fed |-> <<Feed("discriminant", discriminant(self)),
                       Feed("PlaceholderRegion", self.r)>>]
      [] self.tag = "ReVar" ->
            [status |-> "panicked",
             fed |-> <<Feed("discriminant", discriminant(self))>>]

\* HashStable::hash_stable: the discriminant is fed first; ReVar panics.
hash_stable(self) ==
    CASE self.tag \in {"ReErased", "ReStatic", "ReError"} ->
            [status |-> "returned",
             fed |-> <<Feed("discriminant", discriminant(self))>>]
      [] self.tag = "ReBound" ->
            [status |-> "returned",
             fed |-> <<Feed("discriminant", discriminant(self)),
                       Feed("DebruijnIndex", self.d), Feed("BoundRegion", self.r)>>]
      [] self.tag = "ReEarlyParam" ->
            [status |-> "returned",
             fed |-> <<Feed("discriminant", discriminant(self)),
                       Feed("EarlyParamRegion", self.r)>>]
      [] self.tag = "ReLateParam" ->
            [status |-> "returned",
             fed |-> <<Feed("discriminant", discriminant(self)),
                       Feed("LateParamRegion", self.r)>>]
      [] self.tag = "RePlaceholder" ->
            [status |-> "returned",
             fed |-> <<Feed("discriminant", discriminant(self)),
                       Feed("PlaceholderRegion", self.r)>>]
      [] self.tag = "ReVar" ->
            [status |-> "panicked",
             fed |-> <<Feed("discriminant", discriminant(self))>>]

----------------------------------------------------------------------------
(* Debug formatting.  The text written is a sequence of pieces.  A payload *)
(* is rendered by its own Debug implementation ({:?}), which the interner  *)
(* supplies: a piece naming the payload type and a piece for its value.    *)
(* fmt::Debug for RegionKind is DebugWithInfcx::fmt without an inference   *)
(* context, under which this.wrap(vid) renders the InferRegion by itself.  *)

payload_debug(ty, v) == <<ty, ToString(v)>>

fmt_late_param_tagged(self) ==
    CASE self.tag = "ReEarlyParam" ->
            <<"ReEarlyParam", "(">> \o payload_debug("EarlyParamRegion", self.r) \o <<")">>
      [] self.tag = "ReBound" ->
            <<"ReBound", "(">> \o payload_debug("DebruijnIndex", self.d) \o <<", ">>
              \o payload_debug("BoundRegion", self.r) \o <<")">>
      [] self.tag = "ReLateParam" ->
            <<"ReLateParam", "(">> \o payload_debug("LateParamRegion", self.r) \o <<")">>
      [] self.tag = "ReStatic" -> <<"ReStatic">>
      [] self.tag = "ReVar" -> payload_debug("InferRegion", self.r)
      [] self.tag = "RePlaceholder" ->
            <<"RePlaceholder", "(">> \o payload_debug("PlaceholderRegion", self.r) \o <<")">>
      [] self.tag = "ReErased" -> <<"ReErased">>
      [] self.tag = "ReError" -> <<"ReError">>

fmt(self) ==
    CASE self.tag = "ReEarlyParam" ->
            <<"ReEarlyParam", "(">> \o payload_debug("EarlyParamRegion", self.r) \o <<")">>
      [] self.tag = "ReBound" ->
            <<"ReBound", "(">> \o payload_debug("DebruijnIndex", self.d) \o <<", ">>
              \o payload_debug("BoundRegion", self.r) \o <<")">>
      [] self.tag = "ReLateParam" -> payload_debug("LateParamRegion", self.r)
      [] self.tag = "ReStatic" -> <<"ReStatic">>
      [] self.tag = "ReVar" -> payload_debug("InferRegion", self.r)
      [] self.tag = "RePlaceholder" ->
            <<"RePlaceholder", "(">> \o payload_debug("PlaceholderRegion", self.r) \o <<")">>
      [] self.tag = "ReErased" -> <<"ReErased">>
      [] self.tag = "ReError" -> <<"ReError">>

----------------------------------------------------------------------------
(* The state machine: three operands are drawn, and each operation is      *)
(* applied to them once, in any order; `done` holds the operations applied *)
(* so far and the *Out variables what they produced.                       *)

NoEq == [result |-> FALSE, arm |-> "none"]
NoCmp == [ord |-> "Equal", fields |-> FALSE]
NoHashStable == [status |-> "none", fed |-> <<>>]

Init ==
    /\ a \in RegionKind
    /\ b \in RegionKind
    /\ c \in RegionKind
    /\ done = {}
    /\ eqOut = [aa |-> NoEq, ab |-> NoEq, ba |-> NoEq, bc |-> NoEq, ac |-> NoEq]
    /\ cmpOut = [ab |-> NoCmp, ba |-> NoCmp]
    /\ hsOut = [a |-> NoHashStable, b |-> NoHashStable]
    /\ hashOut = [a |-> <<>>, b |-> <<>>]
    /\ fmtOut = <<>>

Eq ==
    /\ "eq" \notin done
    /\ done' = done \cup {"eq"}
    /\ eqOut' = [aa |-> eq(a, a), ab |-> eq(a, b), ba |-> eq(b, a),
                 bc |-> eq(b, c), ac |-> eq(a, c)]
    /\ UNCHANGED <<a, b, c, cmpOut, hsOut, hashOut, fmtOut>>

Cmp ==
    /\ "cmp" \notin done
    /\ done' = done \cup {"cmp"}
    /\ cmpOut' = [ab |-> cmp(a, b), ba |-> cmp(b, a)]
    /\ UNCHANGED <<a, b, c, eqOut, hsOut, hashOut, fmtOut>>

HashStable ==
    /\ "hash_stable" \notin done
    /\ done' = done \cup {"hash_stable"}
    /\ hsOut' = [a |-> hash_stable(a), b |-> hash_stable(b)]
    /\ UNCHANGED <<a, b, c, eqOut, cmpOut, hashOut, fmtOut>>

Hash ==
    /\ "hash" \notin done
    /\ done' = done \cup {"hash"}
    /\ hashOut' = [a |-> hash(a), b |-> hash(b)]
    /\ UNCHANGED <<a, b, c, eqOut, cmpOut, hsOut, fmtOut>>

Fmt ==
    /\ "fmt" \notin done
    /\ done' = done \cup {"fmt"}
    /\ fmtOut' = fmt(a)
    /\ UNCHANGED <<a, b, c, eqOut, cmpOut, hsOut, hashOut>>

Next == Eq \/ Cmp \/ HashStable \/ Hash \/ Fmt

Spec == Init /\ [][Next]_vars

----------------------------------------------------------------------------
(* Properties.                                                             *)

HasPayload(tag) == tag \notin {"ReStatic", "ReErased"}

\* The payloads of two values of one variant are equal, field by field.
PayloadsEqual(x, y) ==
    CASE x.tag = "ReBound" -> x.d = y.d /\ x.r = y.r
      [] x.tag \in {"ReStatic", "ReErased"} -> TRUE
      [] OTHER -> x.r = y.r

\* The variants in declaration order.
TagOrder ==
    <<"ReEarlyParam", "ReBound", "ReLateParam", "ReStatic",
      "ReVar", "RePlaceholder", "ReErased", "ReError">>

TagIndex(tag) == CHOOSE i \in 1 .. Len(TagOrder) : TagOrder[i] = tag

\* sub occurs in s as a run of consecutive pieces.
Contains(s, sub) ==
    \E i \in 0 .. (Len(s) - Len(sub)) : SubSeq(s, i + 1, i + Len(sub)) = sub

\* The Debug rendering of the payload of x: of both fields for ReBound.
PayloadRenderings(x) ==
    CASE x.tag = "ReEarlyParam" -> {payload_debug("EarlyParamRegion", x.r)}
      [] x.tag = "ReBound" ->
            {payload_debug("DebruijnIndex", x.d), payload_debug("BoundRegion", x.r)}
      [] x.tag = "ReLateParam" -> {payload_debug("LateParamRegion", x.r)}
      [] x.tag = "ReVar" -> {payload_debug("InferRegion", x.r)}
      [] x.tag = "RePlaceholder" -> {payload_debug("PlaceholderRegion", x.r)}
      [] x.tag = "ReError" -> {payload_debug("ErrorGuaranteed", x.r)}
      [] OTHER -> {}

(* C1 as stated: a == b exactly when the variant tags are the same and,    *)
(* for every variant with a payload, ReError included, the payloads are    *)
(* equal.                                                                  *)
C1_EqIffTagAndEveryPayload ==
    "eq" \in done =>
        (eqOut.ab.result <=> (a.tag = b.tag /\ PayloadsEqual(a, b)))

(* C1 amended: a == b exactly when the variant tags are the same and, for  *)
(* ReEarlyParam, ReBound (index and region), ReLateParam, ReVar and        *)
(* RePlaceholder, the payloads are equal; the payload of ReError is not    *)
(* compared.                                                               *)
C1_EqIffTagAndComparedPayload ==
    "eq" \in done =>
        (eqOut.ab.result <=>
            (a.tag = b.tag /\ (a.tag # "ReError" => PayloadsEqual(a, b))))

C1_Witness ==
    /\ "eq" \in done
    /\ a.tag = "ReBound" /\ b.tag = "ReBound" /\ c.tag = "ReBound"
    /\ a.r = b.r /\ a.d # b.d /\ ~eqOut.ab.result
    /\ a = c /\ eqOut.ac.result

(* C2: == is reflexive, symmetric and transitive on the values of all      *)
(* eight variants.                                                         *)
C2_EqIsEquivalence ==
    "eq" \in done =>
        /\ eqOut.aa.result
        /\ eqOut.ab.result => eqOut.ba.result
        /\ (eqOut.ab.result /\ eqOut.bc.result) => eqOut.ac.result

C2_Witness ==
    /\ "eq" \in done
    /\ a # b /\ b # c /\ a # c
    /\ eqOut.ab.result /\ eqOut.ba.result /\ eqOut.bc.result /\ eqOut.ac.result

(* C3: for a and b other than ReVar, a == b implies that hash_stable feeds *)
(* the same sequence to the hasher for a and for b.                        *)
C3_EqImpliesSameStableHash ==
    ({"eq", "hash_stable"} \subseteq done
        /\ a.tag # "ReVar" /\ b.tag # "ReVar" /\ eqOut.ab.result)
    => hsOut.a.fed = hsOut.b.fed

C3_Witness ==
    /\ {"eq", "hash_stable"} \subseteq done
    /\ a.tag # "ReVar" /\ a # b /\ eqOut.ab.result
    /\ hsOut.a.status = "returned" /\ hsOut.a.fed = hsOut.b.fed

(* C4: hash_stable of a ReVar panics, whatever its payload, and returns    *)
(* nothing; hash_stable of any other variant returns.                      *)
C4_StableHashPanicsExactlyOnVar ==
    "hash_stable" \in done =>
        /\ a.tag = "ReVar" => hsOut.a.status = "panicked"
        /\ a.tag # "ReVar" => hsOut.a.status = "returned"
        /\ b.tag = "ReVar" => hsOut.b.status = "panicked"
        /\ b.tag # "ReVar" => hsOut.b.status = "returned"

C4_Witness ==
    /\ "hash_stable" \in done
    /\ a.tag = "ReVar" /\ a.r > 0 /\ hsOut.a.status = "panicked"
    /\ b.tag = "RePlaceholder" /\ hsOut.b.status = "returned"

(* C5: any two ReError values are equal under == and feed the same data to *)
(* hash_stable, whatever their ErrorGuaranteed payloads.                   *)
C5_ErrorPayloadIgnored ==
    (a.tag = "ReError" /\ b.tag = "ReError") =>
        /\ "eq" \in done => eqOut.ab.result
        /\ "hash_stable" \in done =>
              (hsOut.a = hsOut.b /\ hsOut.a.status = "returned")

C5_Witness ==
    /\ {"eq", "hash_stable"} \subseteq done
    /\ a.tag = "ReError" /\ b.tag = "ReError" /\ a.r # b.r
    /\ eqOut.ab.result /\ hsOut.a = hsOut.b

(* C6: the order is tag-first.  Two values of different variants compare   *)
(* as their variants do in declaration order, and no payload is compared;  *)
(* payloads are compared only between values of one variant.               *)
C6_CmpTagFirst ==
    "cmp" \in done =>
        /\ a.tag # b.tag =>
              /\ cmpOut.ab.ord =
                    (IF TagIndex(a.tag) < TagIndex(b.tag) THEN "Less" ELSE "Greater")
              /\ ~cmpOut.ab.fields
        /\ cmpOut.ab.fields => a.tag = b.tag
        /\ (a.tag = b.tag /\ HasPayload(a.tag)) => cmpOut.ab.fields

C6_Witness ==
    /\ "cmp" \in done
    /\ a.tag = "ReError" /\ b.tag = "ReEarlyParam" /\ a.r < b.r
    /\ cmpOut.ab.ord = "Greater" /\ cmpOut.ba.ord = "Less"

(* C7 as stated: the Debug text of every variant contains the variant's    *)
(* name and, for a variant with a payload, the rendering of its payload.   *)
C7_DebugHasTagAndPayload ==
    "fmt" \in done =>
        /\ Contains(fmtOut, <<a.tag>>)
        /\ \A p \in PayloadRenderings(a) : Contains(fmtOut, p)

(* C7 amended: the Debug text contains the variant's name for every        *)
(* variant but ReLateParam and ReVar, whose text is the rendering of the   *)
(* payload alone; it contains the rendering of the payload for every       *)
(* variant with one but ReError, whose text is the name alone.             *)
C7_DebugTagOrPayload ==
    "fmt" \in done =>
        /\ a.tag \notin {"ReLateParam", "ReVar"} => Contains(fmtOut, <<a.tag>>)
        /\ a.tag \in {"ReLateParam", "ReVar"} => PayloadRenderings(a) = {fmtOut}
        /\ a.tag # "ReError" => \A p \in PayloadRenderings(a) : Contains(fmtOut, p)
        /\ a.tag = "ReError" => fmtOut = <<"ReError">>

C7_Witness ==
    /\ "fmt" \in done
    /\ a.tag = "ReLateParam" /\ a.r > 0
    /\ fmtOut = payload_debug("LateParamRegion", a.r)

(* C8: the wildcard arm of the match in eq is never taken.  When the two   *)
(* discriminants are equal the arm of the common variant is taken; when    *)
(* they differ the match is not evaluated.                                 *)
C8_WildcardArmUnreachable ==
    "eq" \in done =>
        \A p \in {<<a, a, eqOut.aa>>, <<a, b, eqOut.ab>>, <<b, a, eqOut.ba>>,
                  <<b, c, eqOut.bc>>, <<a, c, eqOut.ac>>} :
            /\ p[3].arm # "wildcard"
            /\ p[1].tag = p[2].tag => p[3].arm = p[1].tag
            /\ p[1].tag # p[2].tag => p[3].arm = "none"

C8_Witness ==
    /\ "eq" \in done
    /\ a.tag = "ReStatic" /\ b.tag = "ReStatic" /\ c.tag = "ReErased"
    /\ eqOut.ab.arm = "ReStatic" /\ eqOut.bc.arm = "none"

(* C9: the derived order agrees with ==: a.cmp(b) is Equal exactly when    *)
(* a == b.                                                                 *)
C9_CmpEqualIffEq ==
    {"eq", "cmp"} \subseteq done =>
        (cmpOut.ab.ord = "Equal" <=> eqOut.ab.result)

(* C10: the derived Hash agrees with ==: a == b implies that Hash::hash    *)
(* feeds the same data to the hasher for a and for b.                      *)
C10_EqImpliesSameHash ==
    ({"eq", "hash"} \subseteq done /\ eqOut.ab.result) => hashOut.a = hashOut.b

====
